---- MODULE Spec2Model ----
(***************************************************************************)
(* The lens page of script.js: class App.  One event loop runs the         *)
(* constructor and then, one at a time and each to completion, the frame   *)
(* callback (animate), the resize and mousemove listeners and the two      *)
(* TextureLoader callbacks.                                                *)
(*                                                                         *)
(* Numbers.  The JavaScript numbers of the page (pointer coordinates, the  *)
(* clock) are modelled as exact decimals with 14 fractional digits: a      *)
(* value v is the pair <<hi, lo>> with v * 10^14 = hi * Limb + lo and      *)
(* 0 <= lo < Limb.  The bounds below keep every value inside the range in  *)
(* which the arithmetic is exact (see Exact), so the model computes with   *)
(* real-number arithmetic; the rounding of IEEE doubles is not modelled.   *)
(***************************************************************************)
EXTENDS Integers, Sequences, FiniteSets, TLC

VARIABLES
    innerWidth, innerHeight,  \* window.innerWidth / window.innerHeight
    width, height,            \* this.width / this.height (ViewportState)
    mouse,                    \* this.mouse (PointerState.current)
    targetMouse,              \* this.targetMouse (PointerState.target)
    rendererSize,             \* logical size last given to renderer.setSize
    material,                 \* TRUE once this.material is set (createMesh)
    uTexture, uMouse, uResolution, uTime,   \* this.material.uniforms.*.value
    loop,                     \* "Idle" before the first animate(), then "Running"
    pending,                  \* frame callbacks requested and not yet run
    load,                     \* the TextureLoader request: "pending", "loaded", "failed"
    loadCalls,                \* number of loader.load calls issued
    errors,                   \* number of console.error reports
    hideCalls,                \* number of hidePreloader calls
    ticks,                    \* number of animate() runs
    draws,                    \* number of renderer.render calls
    lastDraw,                 \* what the last renderer.render call drew with
    steps,                    \* the statements the last animate() ran, in order
    last,                     \* the handler that ran last
    mouse0,                   \* the value this.mouse started from
    pointer,                  \* clientX, clientY of the last mousemove event
    history,                  \* this.targetMouse as each animate() run read it
    dom,                      \* which of #preloader and #counter the page has
    preloader,                \* the #preloader overlay: "absent", "visible",
                              \*   "fading" (opacity going to 0), "hidden"
    count,                    \* setupPreloader's count
    interval,                 \* TRUE while setupPreloader's interval is set
    counterText,              \* innerText written to #counter, as characters
    devicePixelRatio,         \* window.devicePixelRatio
    pixelRatio,               \* the ratio given to renderer.setPixelRatio
    frag,                     \* the fragment the shader runs on and its uniforms
    gl_FragColor              \* what the shader wrote for it

vars == <<innerWidth, innerHeight, width, height, mouse, targetMouse,
          rendererSize, material, uTexture, uMouse, uResolution, uTime,
          loop, pending, load, loadCalls, errors, hideCalls, ticks, draws,
          lastDraw, steps, last, mouse0, pointer, history,
          dom, preloader, count, interval, counterText,
          devicePixelRatio, pixelRatio, frag, gl_FragColor>>

\* what no handler of the page writes: the display's ratio, the ratio the
\* constructor applied, and the fragment program's input and output
gpuVars == <<devicePixelRatio, pixelRatio, frag, gl_FragColor>>

\* the state of setupPreloader
preVars == <<count, interval, counterText>>

(***************************************************************************)
(* Bounds of the model.                                                    *)
(***************************************************************************)
MaxTicks == 3          \* animate() runs explored by Spec
MaxSmooth == 10        \* animate() runs explored by SmoothSpec

\* viewport sizes the window takes (width, height), in CSS pixels
Sizes == {<<2, 4>>, <<4, 2>>}
\* pointer positions (clientX, clientY) the mousemove events report
Pointers == {<<1, 2>>, <<4, 1>>}

(***************************************************************************)
(* Exact decimals.                                                         *)
(***************************************************************************)
Limb == 10^7

Norm(h, l) == <<h + (l \div Limb), l % Limb>>
Dec(n, d) ==   \* the decimal n / d  (d a small positive integer)
    LET h == n * Limb
        q == h \div d
        r == h % d
    IN  <<q, (r * Limb) \div d>>
DecExact(n, d) == ((n * Limb) % d) * Limb % d = 0
Add(a, b) == Norm(a[1] + b[1], a[2] + b[2])
Sub(a, b) == Norm(a[1] - b[1], a[2] - b[2])
Mul(a, f) ==   \* a * (f[1] / f[2]) for a small fraction f
    LET p == Norm(a[1] * f[1], a[2] * f[1])
        q == p[1] \div f[2]
        r == p[1] % f[2]
    IN  <<q, (r * Limb + p[2]) \div f[2]>>
MulExact(a, f) ==
    LET p == Norm(a[1] * f[1], a[2] * f[1])
    IN  ((p[1] % f[2]) * Limb + p[2]) % f[2] = 0
Leq(a, b) == a[1] < b[1] \/ (a[1] = b[1] /\ a[2] <= b[2])
Less(a, b) == a[1] < b[1] \/ (a[1] = b[1] /\ a[2] < b[2])
Zero == Dec(0, 1)
One == Dec(1, 1)
Abs(a) == IF Less(a, Zero) THEN Sub(Zero, a) ELSE a

Vec(x, y) == [x |-> x, y |-> y]

(***************************************************************************)
(* Program constants.                                                      *)
(***************************************************************************)
\* a smoothing factor of 0.5 instead of 0.1
Alpha_half == <<1, 2>>
Alpha == <<1, 10>>        \* the factor 0.1 of this.mouse.lerp(..., 0.1)
\* a clock step of 0.1 instead of 0.01
TimeStep_tenth == Dec(1, 10)
TimeStep == Dec(1, 100)   \* uTime.value += 0.01
Center == Vec(Dec(1, 2), Dec(1, 2))   \* new THREE.Vector2(0.5, 0.5)
NoTexture == [image |-> "null", minFilter |-> "", magFilter |-> ""]
Image == [image |-> "./images/background.jpg",
          minFilter |-> "LinearFilter", magFilter |-> "LinearFilter"]

\* a lerp that adds v * alpha instead of (v - this) * alpha
lerp_noSub(c, t, alpha) ==
    Vec(Add(c.x, Mul(t.x, alpha)), Add(c.y, Mul(t.y, alpha)))

\* THREE.Vector2.lerp(v, alpha): x += (v.x - x) * alpha, y likewise
lerp(c, t, alpha) ==
    Vec(Add(c.x, Mul(Sub(t.x, c.x), alpha)),
        Add(c.y, Mul(Sub(t.y, c.y), alpha)))

(***************************************************************************)
(* animate(): the four statements of the frame callback, each a function   *)
(* of the fields it reads and writes, applied in program order.            *)
(***************************************************************************)
Frame == [pending |-> pending, mouse |-> mouse, uMouse |-> uMouse,
          uTime |-> uTime, draws |-> draws, lastDraw |-> lastDraw,
          steps |-> <<>>]

\* an animate() that does not request the next frame
requestFrame_none(s) == [s EXCEPT !.steps = Append(@, "requestAnimationFrame")]

requestFrame(s) ==
    [s EXCEPT !.pending = @ + 1, !.steps = Append(@, "requestAnimationFrame")]

\* an interpolation that runs only once the texture is there
lerpMouse_textured(s) ==
    [s EXCEPT !.mouse = IF uTexture # NoTexture
                        THEN lerp(s.mouse, targetMouse, Alpha) ELSE @,
              !.steps = Append(@, "lerp")]

lerpMouse(s) ==
    [s EXCEPT !.mouse = lerp(s.mouse, targetMouse, Alpha),
              !.steps = Append(@, "lerp")]

\* a push guarded by the texture: if (this.material.uniforms.uTexture.value)
pushGuard_texture == uTexture # NoTexture

\* the guard of the parameter push: if (this.material)
pushGuard == material

pushUniforms(s) ==
    IF pushGuard
    THEN [s EXCEPT !.uMouse = s.mouse,
                   !.uTime = Add(@, TimeStep),
                   !.steps = Append(@, "push")]
    ELSE s

render(s) ==
    [s EXCEPT !.draws = @ + 1,
              !.lastDraw = [tick |-> ticks + 1,
                            previous |-> s.lastDraw.uResolution,
                            viewport |-> <<innerWidth, innerHeight>>,
                            uMouse |-> s.uMouse,
                            uTime |-> s.uTime,
                            uResolution |-> uResolution,
                            uTexture |-> uTexture,
                            size |-> rendererSize],
              !.steps = Append(@, "render")]

\* an animate() that pushes the uniforms before it interpolates
animateBody_pushFirst(s) == render(lerpMouse(pushUniforms(requestFrame(s))))

animateBody(s) == render(pushUniforms(lerpMouse(requestFrame(s))))

animate(s) ==
    \E r \in {animateBody(s)} :
        /\ pending' = r.pending
        /\ mouse' = r.mouse
        /\ uMouse' = r.uMouse
        /\ uTime' = r.uTime
        /\ draws' = r.draws
        /\ lastDraw' = r.lastDraw
        /\ steps' = r.steps
        /\ ticks' = ticks + 1
        /\ history' = Append(history, targetMouse)
        /\ last' = "animate"
        /\ UNCHANGED <<innerWidth, innerHeight, width, height, targetMouse,
                       rendererSize, material, uTexture, uResolution,
                       load, loadCalls, errors, hideCalls, mouse0, pointer,
                       dom, gpuVars, preloader>>

(***************************************************************************)
(* The state in the constructor after init() .. loadTexture() and before   *)
(* its call of animate().                                                  *)
(***************************************************************************)
NoDraw == [tick |-> 0, previous |-> <<0, 0>>, viewport |-> <<0, 0>>,
           uMouse |-> Center, uTime |-> Zero,
           uResolution |-> <<0, 0>>, uTexture |-> NoTexture, size |-> <<0, 0>>]

Constructed ==
    /\ \E sz \in Sizes :
         /\ innerWidth = sz[1]
         /\ innerHeight = sz[2]
         /\ width = sz[1]
         /\ height = sz[2]
         /\ rendererSize = sz
         /\ uResolution = sz
    /\ material = TRUE
    /\ uTexture = NoTexture
    /\ uMouse = Center
    /\ uTime = Zero
    /\ load = "pending"
    /\ loadCalls = 1
    /\ errors = 0
    /\ hideCalls = 0
    /\ ticks = 0
    /\ draws = 0
    /\ lastDraw = NoDraw
    /\ steps = <<>>
    /\ last = "constructor"
    /\ pointer = <<0, 0>>
    /\ history = <<>>
    /\ count = 0
    /\ interval = FALSE
    /\ counterText = <<>>

\* a page with, or without, the #preloader and #counter elements
Page(d) ==
    /\ dom = d
    /\ preloader = IF d.preloader THEN "visible" ELSE "absent"

FullPage == [preloader |-> TRUE, counter |-> TRUE]

\* Math.min of two numbers
min(a, b) == IF Less(b, a) THEN b ELSE a

\* a createRenderer that applies the display's ratio as it is
appliedRatio_raw(dpr) == dpr

\* createRenderer: renderer.setPixelRatio(Math.min(window.devicePixelRatio, 2))
appliedRatio(dpr) == min(dpr, Dec(2, 1))

\* the display the page was constructed on
Display(r) ==
    /\ devicePixelRatio = r
    /\ pixelRatio = appliedRatio(r)

\* the ratio of an ordinary display
PlainDisplay == One

\* no fragment program is run
NoFragment == "none"
NoColor == "none"
Unshaded ==
    /\ frag = NoFragment
    /\ gl_FragColor = NoColor

Init ==
    /\ Constructed
    /\ Page(FullPage)
    /\ Display(PlainDisplay)
    /\ Unshaded
    /\ mouse = Center
    /\ mouse0 = Center
    /\ targetMouse = Center
    /\ loop = "Idle"
    /\ pending = 0

\* setupPreloader(): count = 0 and the 50 ms interval is set
setupPreloader ==
    /\ count' = 0
    /\ interval' = TRUE
    /\ UNCHANGED counterText

\* the end of the constructor: this.animate(); this.setupPreloader()
Construct ==
    /\ loop = "Idle"
    /\ loop' = "Running"
    /\ animate(Frame)
    /\ setupPreloader

\* a display refresh runs one requested frame callback
Tick ==
    /\ loop = "Running"
    /\ pending > 0
    /\ ticks < MaxTicks
    /\ UNCHANGED <<loop, preVars>>
    /\ animate([Frame EXCEPT !.pending = @ - 1])

\* an onResize that forgets uResolution.value.set
onResize_stale(w, h) ==
    /\ innerWidth' = w
    /\ innerHeight' = h
    /\ width' = w
    /\ height' = h
    /\ rendererSize' = <<w, h>>
    /\ last' = "onResize"
    /\ UNCHANGED <<mouse, targetMouse, material, uTexture, uMouse, uTime,
                   uResolution, loop, pending, load, loadCalls, errors,
                   hideCalls, ticks, draws, lastDraw, steps, mouse0,
                   pointer, history, dom, gpuVars, preloader, preVars>>

onResize(w, h) ==
    /\ innerWidth' = w
    /\ innerHeight' = h
    /\ width' = w
    /\ height' = h
    /\ rendererSize' = <<w, h>>
    /\ uResolution' = <<w, h>>
    /\ last' = "onResize"
    /\ UNCHANGED <<mouse, targetMouse, material, uTexture, uMouse, uTime,
                   loop, pending, load, loadCalls, errors, hideCalls, ticks,
                   draws, lastDraw, steps, mouse0,
                   pointer, history, dom, gpuVars, preloader, preVars>>

\* a resize that rebuilds the material and so drops the texture
Resize_rebuild ==
    /\ loop = "Running"
    /\ \E sz \in Sizes :
         /\ innerWidth' = sz[1]
         /\ innerHeight' = sz[2]
         /\ width' = sz[1]
         /\ height' = sz[2]
         /\ rendererSize' = sz
         /\ uResolution' = sz
         /\ uTexture' = NoTexture
         /\ last' = "onResize"
         /\ UNCHANGED <<mouse, targetMouse, material, uMouse, uTime, loop,
                        pending, load, loadCalls, errors, hideCalls, ticks,
                        draws, lastDraw, steps, mouse0,
                   pointer, history, dom, gpuVars, preloader, preVars>>

Resize ==
    /\ loop = "Running"
    /\ \E sz \in Sizes : onResize(sz[1], sz[2])

\* an onMouseMove that clamps the target to [0,1]
onMouseMove_clamped(clientX, clientY) ==
    LET Clamp(v) == IF Less(v, Zero) THEN Zero ELSE IF Less(One, v) THEN One ELSE v
        x == Clamp(Dec(clientX, width))
        y == Clamp(Sub(One, Dec(clientY, height)))
    IN  /\ targetMouse' = Vec(x, y)
        /\ pointer' = <<clientX, clientY>>
        /\ last' = "onMouseMove"
        /\ UNCHANGED <<innerWidth, innerHeight, width, height, mouse,
                       rendererSize, material, uTexture, uMouse, uResolution,
                       uTime, loop, pending, load, loadCalls, errors,
                       hideCalls, ticks, draws, lastDraw, steps, mouse0,
                       history, dom, gpuVars, preloader, preVars>>

\* an onMouseMove that divides each coordinate by the other dimension
onMouseMove_swapped(clientX, clientY) ==
    LET x == Dec(clientX, height)
        y == Sub(One, Dec(clientY, width))
    IN  /\ targetMouse' = Vec(x, y)
        /\ pointer' = <<clientX, clientY>>
        /\ last' = "onMouseMove"
        /\ UNCHANGED <<innerWidth, innerHeight, width, height, mouse,
                       rendererSize, material, uTexture, uMouse, uResolution,
                       uTime, loop, pending, load, loadCalls, errors,
                       hideCalls, ticks, draws, lastDraw, steps, mouse0,
                       history, dom, gpuVars, preloader, preVars>>

\* an onMouseMove that sets this.mouse as well as this.targetMouse
onMouseMove_direct(clientX, clientY) ==
    LET x == Dec(clientX, width)
        y == Sub(One, Dec(clientY, height))
    IN  /\ targetMouse' = Vec(x, y)
        /\ pointer' = <<clientX, clientY>>
        /\ mouse' = Vec(x, y)
        /\ last' = "onMouseMove"
        /\ UNCHANGED <<innerWidth, innerHeight, width, height,
                       rendererSize, material, uTexture, uMouse, uResolution,
                       uTime, loop, pending, load, loadCalls, errors,
                       hideCalls, ticks, draws, lastDraw, steps, mouse0,
                       history, dom, gpuVars, preloader, preVars>>

onMouseMove(clientX, clientY) ==
    LET x == Dec(clientX, width)
        y == Sub(One, Dec(clientY, height))
    IN  /\ targetMouse' = Vec(x, y)
        /\ pointer' = <<clientX, clientY>>
        /\ last' = "onMouseMove"
        /\ UNCHANGED <<innerWidth, innerHeight, width, height, mouse,
                       rendererSize, material, uTexture, uMouse, uResolution,
                       uTime, loop, pending, load, loadCalls, errors,
                       hideCalls, ticks, draws, lastDraw, steps, mouse0,
                       history, dom, gpuVars, preloader, preVars>>

MouseMove ==
    /\ loop = "Running"
    /\ \E p \in Pointers : onMouseMove(p[1], p[2])

\* hidePreloader(): with a #preloader element, its opacity goes to 0 (by
\* gsap.to over one second, or by style.opacity = '0') and a completion
\* callback is left to set display: none; without one, nothing happens
hidePreloader(p) == IF dom.preloader THEN "fading" ELSE p

\* loader.load's onLoad callback
onLoad ==
    /\ uTexture' = Image
    /\ hideCalls' = hideCalls + 1
    /\ preloader' = hidePreloader(preloader)
    /\ load' = "loaded"
    /\ last' = "onLoad"
    /\ UNCHANGED <<innerWidth, innerHeight, width, height, mouse, targetMouse,
                   rendererSize, material, uMouse, uResolution, uTime, loop,
                   pending, loadCalls, errors, ticks, draws, lastDraw, steps,
                   mouse0, pointer, history, dom, gpuVars, preVars>>

LoadSuccess ==
    /\ loop = "Running"
    /\ load = "pending"
    /\ onLoad

\* an onError callback that also lets the page through: hidePreloader()
onError_hide ==
    /\ errors' = errors + 1
    /\ load' = "failed"
    /\ hideCalls' = hideCalls + 1
    /\ preloader' = IF dom.preloader THEN "fading" ELSE preloader
    /\ last' = "onError"
    /\ UNCHANGED <<innerWidth, innerHeight, width, height, mouse, targetMouse,
                   rendererSize, material, uTexture, uMouse, uResolution,
                   uTime, loop, pending, loadCalls, ticks, draws,
                   lastDraw, steps, mouse0, pointer, history, dom, gpuVars, preVars>>

\* an onError callback that logs and loads again
onError_retry ==
    /\ errors' = errors + 1
    /\ loadCalls' = loadCalls + 1
    /\ load' = IF loadCalls < 2 THEN "pending" ELSE "failed"
    /\ last' = "onError"
    /\ UNCHANGED <<innerWidth, innerHeight, width, height, mouse, targetMouse,
                   rendererSize, material, uTexture, uMouse, uResolution,
                   uTime, loop, pending, hideCalls, ticks, draws,
                   lastDraw, steps, mouse0,
                   pointer, history, dom, gpuVars, preloader, preVars>>

\* loader.load's onError callback
onError ==
    /\ errors' = errors + 1
    /\ load' = "failed"
    /\ last' = "onError"
    /\ UNCHANGED <<innerWidth, innerHeight, width, height, mouse, targetMouse,
                   rendererSize, material, uTexture, uMouse, uResolution,
                   uTime, loop, pending, loadCalls, hideCalls, ticks, draws,
                   lastDraw, steps, mouse0,
                   pointer, history, dom, gpuVars, preloader, preVars>>

LoadFailure ==
    /\ loop = "Running"
    /\ load = "pending"
    /\ onError

Next == Construct \/ Tick \/ Resize \/ MouseMove \/ LoadSuccess \/ LoadFailure

Spec == Init /\ [][Next]_vars

\* the frame loop is driven by the display: a requested frame callback runs
FairSpec == Spec /\ WF_vars(Construct) /\ WF_vars(Tick)

(***************************************************************************)
(* Pointers inside the viewport: every mousemove event reports a position  *)
(* with 0 <= clientX <= this.width and 0 <= clientY <= this.height.        *)
(***************************************************************************)
InsidePointers == {<<0, 0>>, <<1, 2>>, <<4, 2>>, <<2, 4>>}

MouseMoveInside ==
    /\ loop = "Running"
    /\ \E p \in InsidePointers :
         /\ p[1] <= width
         /\ p[2] <= height
         /\ onMouseMove(p[1], p[2])

InsideNext ==
    Construct \/ Tick \/ Resize \/ MouseMoveInside \/ LoadSuccess \/ LoadFailure

InsideSpec == Init /\ [][InsideNext]_vars

(***************************************************************************)
(* The render surface.  The page is constructed on a display of any ratio  *)
(* in Ratios; the window is resized and moved between displays, which      *)
(* changes window.devicePixelRatio.                                        *)
(***************************************************************************)
Ratios == {One, Dec(3, 2), Dec(2, 1), Dec(21, 8), Dec(3, 1)}

\* the window moves to another display or is zoomed
Rescale ==
    /\ loop = "Running"
    /\ \E r \in Ratios \ {devicePixelRatio} : devicePixelRatio' = r
    /\ UNCHANGED <<innerWidth, innerHeight, width, height, mouse, targetMouse,
                   rendererSize, material, uTexture, uMouse, uResolution,
                   uTime, loop, pending, load, loadCalls, errors, hideCalls,
                   ticks, draws, lastDraw, steps, last, mouse0, pointer,
                   history, dom, preloader, preVars, pixelRatio, frag,
                   gl_FragColor>>

SurfaceInit ==
    /\ Constructed
    /\ Page(FullPage)
    /\ \E r \in Ratios : Display(r)
    /\ Unshaded
    /\ mouse = Center
    /\ mouse0 = Center
    /\ targetMouse = Center
    /\ loop = "Idle"
    /\ pending = 0

SurfaceNext == Construct \/ Tick \/ Resize \/ Rescale

SurfaceSpec == SurfaceInit /\ [][SurfaceNext]_vars

(***************************************************************************)
(* The preloader.  Its two callbacks, the interval of setupPreloader and    *)
(* the end of the fade hidePreloader starts, read and write only dom,      *)
(* preloader, count, interval and counterText, which no other handler      *)
(* reads; Spec leaves them out and PreloaderSpec runs them with the frame  *)
(* loop and the load, on every shape of page.                              *)
(***************************************************************************)
CountMax == 100      \* if(count > 100) count = 100
RandomSpan == 5      \* Math.random() * 5
RandomSteps == 10    \* Math.random() yields j / RandomSteps, 0 <= j < RandomSteps

\* Math.floor(Math.random() * 5) for Math.random() = j / RandomSteps
randomInt(j) == (j * RandomSpan) \div RandomSteps

DigitChars == <<"0", "1", "2", "3", "4", "5", "6", "7", "8", "9">>

\* Number.prototype.toString(), base 10, of a natural number
RECURSIVE toString(_)
toString(n) ==
    IF n < 10 THEN <<DigitChars[n + 1]>>
    ELSE Append(toString(n \div 10), DigitChars[(n % 10) + 1])

\* String.prototype.padStart(len, ch)
RECURSIVE padStart(_, _, _)
padStart(str, len, ch) ==
    IF Len(str) >= len THEN str ELSE padStart(<<ch>> \o str, len, ch)

\* `[${count.toString().padStart(3, '0')}]`
counterLabel(n) == <<"[">> \o padStart(toString(n), 3, "0") \o <<"]">>

\* an interval callback without the clamp to 100
onInterval_unclamped(inc) ==
    /\ count' = count + inc
    /\ counterText' = IF dom.counter THEN counterLabel(count') ELSE counterText
    /\ interval' = IF count' = CountMax THEN FALSE ELSE interval
    /\ last' = "onInterval"
    /\ UNCHANGED <<innerWidth, innerHeight, width, height, mouse, targetMouse,
                   rendererSize, material, uTexture, uMouse, uResolution,
                   uTime, loop, pending, load, loadCalls, errors, hideCalls,
                   ticks, draws, lastDraw, steps, mouse0, pointer, history,
                   dom, gpuVars, preloader>>

\* an interval callback that lets the page through when the count is full
onInterval_ready(inc) ==
    /\ count' = IF count + inc > CountMax THEN CountMax ELSE count + inc
    /\ counterText' = IF dom.counter THEN counterLabel(count') ELSE counterText
    /\ interval' = IF count' = CountMax THEN FALSE ELSE interval
    /\ preloader' = IF count' = CountMax /\ dom.preloader THEN "fading" ELSE preloader
    /\ last' = "onInterval"
    /\ UNCHANGED <<innerWidth, innerHeight, width, height, mouse, targetMouse,
                   rendererSize, material, uTexture, uMouse, uResolution,
                   uTime, loop, pending, load, loadCalls, errors, hideCalls,
                   ticks, draws, lastDraw, steps, mouse0, pointer, history,
                   dom, gpuVars>>

\* the setInterval callback of setupPreloader, inc its random increment
onInterval(inc) ==
    /\ count' = IF count + inc > CountMax THEN CountMax ELSE count + inc
    /\ counterText' = IF dom.counter THEN counterLabel(count') ELSE counterText
    /\ interval' = IF count' = CountMax THEN FALSE ELSE interval
    /\ last' = "onInterval"
    /\ UNCHANGED <<innerWidth, innerHeight, width, height, mouse, targetMouse,
                   rendererSize, material, uTexture, uMouse, uResolution,
                   uTime, loop, pending, load, loadCalls, errors, hideCalls,
                   ticks, draws, lastDraw, steps, mouse0, pointer, history,
                   dom, gpuVars, preloader>>

IntervalFire ==
    /\ interval
    /\ \E j \in 0..(RandomSteps - 1) : onInterval(randomInt(j))

\* an interval firing whose random increment is not 0
IntervalAdvance ==
    /\ interval
    /\ \E j \in 0..(RandomSteps - 1) :
         randomInt(j) > 0 /\ onInterval(randomInt(j))

\* the completion callback of the fade: p.style.display = 'none'
onFadeEnd ==
    /\ preloader' = "hidden"
    /\ last' = "onFadeEnd"
    /\ UNCHANGED <<innerWidth, innerHeight, width, height, mouse, targetMouse,
                   rendererSize, material, uTexture, uMouse, uResolution,
                   uTime, loop, pending, load, loadCalls, errors, hideCalls,
                   ticks, draws, lastDraw, steps, mouse0, pointer, history,
                   dom, gpuVars, preVars>>

FadeEnd ==
    /\ preloader = "fading"
    /\ onFadeEnd

PreloaderInit ==
    /\ Constructed
    /\ \E d \in [preloader : BOOLEAN, counter : BOOLEAN] : Page(d)
    /\ Display(PlainDisplay)
    /\ Unshaded
    /\ mouse = Center
    /\ mouse0 = Center
    /\ targetMouse = Center
    /\ loop = "Idle"
    /\ pending = 0

PreloaderNext ==
    Construct \/ Tick \/ LoadSuccess \/ LoadFailure \/ IntervalFire \/ FadeEnd

PreloaderSpec == PreloaderInit /\ [][PreloaderNext]_vars

\* the interval keeps firing while it is set, and Math.random() does not
\* stay below 1/5 for ever
PreloaderFairSpec ==
    PreloaderSpec /\ WF_vars(Construct) /\ WF_vars(IntervalAdvance)

(***************************************************************************)
(* The fragment program (getShader().fragment).  GLSL floats are modelled   *)
(* as fractions <<n, d>> in lowest terms with d > 0, and NaN as <<0, 0>>;   *)
(* the arithmetic is exact except for sqrt, which is rounded down to a     *)
(* multiple of 1 / SqrtGrid, and the rounding of 32-bit floats is not      *)
(* modelled.  A texture lookup is modelled by the coordinate it reads.     *)
(***************************************************************************)
NaN == <<0, 0>>
IsNaN(a) == a[2] = 0

RECURSIVE gcd(_, _)
gcd(a, b) == IF b = 0 THEN a ELSE gcd(b, a % b)

Rat(n, d) ==
    LET g == gcd(IF n < 0 THEN -n ELSE n, d)
    IN  <<n \div g, d \div g>>

R0 == Rat(0, 1)
R1 == Rat(1, 1)

fadd(a, b) ==
    IF IsNaN(a) \/ IsNaN(b) THEN NaN
    ELSE LET g == gcd(a[2], b[2])
         IN  Rat(a[1] * (b[2] \div g) + b[1] * (a[2] \div g), (a[2] \div g) * b[2])
fsub(a, b) == fadd(a, <<-b[1], b[2]>>)
fmul(a, b) ==
    IF IsNaN(a) \/ IsNaN(b) THEN NaN
    ELSE LET p == Rat(a[1], b[2])
             q == Rat(b[1], a[2])
         IN  <<p[1] * q[1], p[2] * q[2]>>
fdiv(a, b) ==
    IF IsNaN(a) \/ IsNaN(b) \/ b[1] = 0 THEN NaN
    ELSE IF b[1] > 0 THEN fmul(a, <<b[2], b[1]>>)
    ELSE fmul(a, <<-b[2], -b[1]>>)
\* a < b; false when either is NaN
flt(a, b) ==
    /\ ~ IsNaN(a)
    /\ ~ IsNaN(b)
    /\ LET g == gcd(a[2], b[2])
       IN  a[1] * (b[2] \div g) < b[1] * (a[2] \div g)
fmax(a, b) == IF flt(a, b) THEN b ELSE a
fmin(a, b) == IF flt(b, a) THEN b ELSE a

\* the largest k in lo..hi with k * k <= n
RECURSIVE isqrt(_, _, _)
isqrt(n, lo, hi) ==
    IF lo = hi THEN lo
    ELSE LET mid == (lo + hi + 1) \div 2
         IN  IF mid * mid <= n THEN isqrt(n, mid, hi) ELSE isqrt(n, lo, mid - 1)

SqrtGrid == 250
SqrtMax == 46340

sqrt(a) ==
    IF IsNaN(a) \/ a[1] < 0 THEN NaN
    ELSE LET q == (a[1] * SqrtGrid) \div a[2]
             r == (a[1] * SqrtGrid) % a[2]
             m == q * SqrtGrid + (r * SqrtGrid) \div a[2]
         IN  Rat(isqrt(m, 0, SqrtMax), SqrtGrid)

vadd(p, q) == Vec(fadd(p.x, q.x), fadd(p.y, q.y))
vsub(p, q) == Vec(fsub(p.x, q.x), fsub(p.y, q.y))
vmul(p, q) == Vec(fmul(p.x, q.x), fmul(p.y, q.y))
vscale(p, k) == Vec(fmul(p.x, k), fmul(p.y, k))

length(v) == sqrt(fadd(fmul(v.x, v.x), fmul(v.y, v.y)))
distance(p, q) == length(vsub(p, q))

\* normalize(v) is v / length(v); GLSL leaves it undefined for the zero
\* vector, where the GPU's result is zeroDir
normalize(v, zeroDir) ==
    IF v = Vec(R0, R0) THEN zeroDir
    ELSE LET len == length(v) IN Vec(fdiv(v.x, len), fdiv(v.y, len))

clamp(x, lo, hi) == fmin(fmax(x, lo), hi)

smoothstep(edge0, edge1, x) ==
    LET t == clamp(fdiv(fsub(x, edge0), fsub(edge1, edge0)), R0, R1)
    IN  fmul(fmul(t, t), fsub(Rat(3, 1), fmul(Rat(2, 1), t)))

\* CONFIG.lensSize, CONFIG.lensBulge, CONFIG.aberrationStrength
lensSize == Rat(2, 5)
bulge == Rat(1, 2)
abStr == Rat(3, 100)

\* main() on the fragment f = [uv, uMouse, uResolution, zeroDir]
aspect(f) == Vec(fdiv(Rat(f.uResolution[1], 1), Rat(f.uResolution[2], 1)), R1)

dist(f) == distance(vmul(f.uv, aspect(f)), vmul(f.uMouse, aspect(f)))

\* a mask whose band starts at half the lens
lensMask_halfBand(d) ==
    fsub(R1, smoothstep(fmul(lensSize, Rat(1, 2)), lensSize, d))

\* lensMask, from dist
lensMask(d) ==
    fsub(R1, smoothstep(fmul(lensSize, Rat(4, 5)), lensSize, d))

\* pow(x, bulge): bulge is 0.5
displacement(d) == sqrt(fdiv(d, lensSize))

dir(f) == normalize(vsub(f.uv, f.uMouse), f.zeroDir)

\* a distortion applied to every fragment
distortedUv_everywhere(f, d) ==
    LET n == dir(f)
    IN  vadd(f.uMouse, vscale(n, fmul(d, fsub(R1, fmul(bulge, Rat(1, 2))))))

\* distortedUv, from the fragment and dist
distortedUv(f, d) ==
    IF flt(d, lensSize)
    THEN LET n == dir(f)
         IN  vadd(f.uMouse, vscale(n, fmul(d, fsub(R1, fmul(bulge, Rat(1, 2))))))
    ELSE f.uv

\* aberration, from lensMask and dist
aberration(m, d) == fmul(fmul(m, abStr), fdiv(d, lensSize))

\* gl_FragColor: the texture coordinate each of r, g, b is read at, and a
main(f) ==
    LET d == dist(f)
        m == lensMask(d)
        duv == distortedUv(f, d)
        ab == aberration(m, d)
    IN  [r |-> vadd(duv, Vec(ab, R0)),
         g |-> duv,
         b |-> vsub(duv, Vec(ab, R0)),
         a |-> R1]

\* the fragments of a frame: a coarse grid over the plane, and the part on
\* the plane of the row right of the mouse that crosses the lens edge, at
\* the distances k / 250, in steps of 0.004
UvCoords == {R0, Rat(1, 5), Rat(1, 2), Rat(4, 5), R1}
BandSteps == 76..102
OnPlane(p) ==
    /\ ~ flt(p.x, R0) /\ ~ flt(R1, p.x)
    /\ ~ flt(p.y, R0) /\ ~ flt(R1, p.y)
UvPoints(f) ==
    {Vec(x, y) : x \in UvCoords, y \in UvCoords}
        \cup {p \in {Vec(fadd(f.uMouse.x, fdiv(Rat(k, 250), aspect(f).x)),
                         f.uMouse.y) : k \in BandSteps} :
                OnPlane(p)}
\* the uniforms of a frame
LensMice == {Vec(Rat(1, 2), Rat(1, 2)), Vec(Rat(3, 10), Rat(1, 2)),
             Vec(Rat(3, 2), Rat(1, 5))}
LensSizes == {<<2, 2>>, <<4, 2>>, <<2, 4>>}
\* what a GPU returns for normalize(vec2(0.0))
ZeroDirs == {Vec(R0, R0), Vec(NaN, NaN)}

\* one invocation of the fragment program, on the fragment at uv
Shade ==
    /\ \E uv \in UvPoints(frag) :
         \E f \in {[frag EXCEPT !.uv = uv]} :
            /\ frag' = f
            /\ gl_FragColor' = main(f)
    /\ last' = "main"
    /\ UNCHANGED <<innerWidth, innerHeight, width, height, mouse, targetMouse,
                   rendererSize, material, uTexture, uMouse, uResolution,
                   uTime, loop, pending, load, loadCalls, errors, hideCalls,
                   ticks, draws, lastDraw, steps, mouse0, pointer, history,
                   dom, preloader, preVars, devicePixelRatio, pixelRatio>>

LensInit ==
    /\ Constructed
    /\ Page(FullPage)
    /\ Display(PlainDisplay)
    /\ mouse = Center
    /\ mouse0 = Center
    /\ targetMouse = Center
    /\ loop = "Running"
    /\ pending = 1
    /\ frag \in [uv : {Vec(R0, R0)}, uMouse : LensMice,
                 uResolution : LensSizes, zeroDir : ZeroDirs]
    /\ gl_FragColor = NoColor

LensNext == Shade

LensSpec == LensInit /\ [][LensNext]_vars

(***************************************************************************)
(* The smoothing alone: this.mouse and this.targetMouse start anywhere in  *)
(* SmoothPoints, the target is then held fixed (no mousemove arrives) and  *)
(* only frame callbacks run.                                               *)
(***************************************************************************)
SmoothCoords == {Zero, Dec(1, 2), One}
SmoothPoints == {Vec(x, y) : x \in SmoothCoords, y \in SmoothCoords}

SmoothInit ==
    /\ Constructed
    /\ Page(FullPage)
    /\ Display(PlainDisplay)
    /\ Unshaded
    /\ mouse \in SmoothPoints
    /\ mouse0 = mouse
    /\ targetMouse \in SmoothPoints
    /\ loop = "Running"
    /\ pending = 1

SmoothTick ==
    /\ loop = "Running"
    /\ pending > 0
    /\ ticks < MaxSmooth
    /\ UNCHANGED <<loop, preVars>>
    /\ animate([Frame EXCEPT !.pending = @ - 1])

SmoothNext == SmoothTick

SmoothSpec == SmoothInit /\ [][SmoothNext]_vars

\* every value of the state is inside the exact range of the decimals
Exact ==
    /\ \A v \in {mouse.x, mouse.y} :
         MulExact(Sub(targetMouse.x, v), Alpha) /\ MulExact(Sub(targetMouse.y, v), Alpha)
    /\ \A p \in Pointers : DecExact(p[1], width) /\ DecExact(p[2], height)

(***************************************************************************)
(* Properties.                                                             *)
(***************************************************************************)
Origin == Vec(Zero, Zero)
Corner == Vec(One, One)
AnimateSteps == <<"requestAnimationFrame", "lerp", "push", "render">>

\* C1 as stated: a tick that runs while the texture is absent leaves the
\* pushed parameters uMouse and uTime as they were.
TickWithoutTextureSkipsPush ==
    [][(ticks' # ticks /\ uTexture = NoTexture)
          => (uMouse' = uMouse /\ uTime' = uTime)]_vars

\* C1 as the code has it: every tick pushes the parameters, whether or not
\* the texture is present: after the tick uMouse is the interpolated
\* this.mouse and uTime is one step larger; the tick does not write uTexture.
TickAlwaysPushes ==
    [][ticks' # ticks
          => /\ uMouse' = mouse'
             /\ uTime' = Add(uTime, TimeStep)
             /\ uTime' # uTime
             /\ uTexture' = uTexture]_vars

\* a tick has pushed a moved pointer and the clock while the texture is absent
PushedWithoutTexture ==
    /\ last = "animate"
    /\ uTexture = NoTexture
    /\ lastDraw.uTexture = NoTexture
    /\ uMouse # Center
    /\ uTime = Dec(ticks, 100)
    /\ ticks >= 2

\* C2: in every state, and so at every draw, uResolution is the size the last
\* resize event delivered (the startup size before any), the size of
\* this.width/height and the logical size last given to the renderer; each
\* draw was made with exactly these.
ResolutionIsCurrent ==
    /\ uResolution = <<innerWidth, innerHeight>>
    /\ uResolution = <<width, height>>
    /\ uResolution = rendererSize
    /\ draws > 0 => /\ lastDraw.uResolution = lastDraw.viewport
                    /\ lastDraw.uResolution = lastDraw.size

\* a draw that follows a resize to another size used the new size
DrewAfterResize ==
    /\ draws >= 2
    /\ last = "animate"
    /\ lastDraw.previous # lastDraw.uResolution
    /\ lastDraw.uResolution = <<innerWidth, innerHeight>>

\* C3: every tick runs request, interpolate, push, draw in this order, and its
\* draw uses the uMouse pushed in the same tick, which is this.mouse as the
\* same tick's interpolation left it; nothing runs between push and draw, so
\* what was drawn is what the uniforms still hold.
TickOrder ==
    draws > 0 => /\ steps = AnimateSteps
                 /\ lastDraw.tick = ticks
                 /\ lastDraw.uMouse = mouse
                 /\ lastDraw.uMouse = uMouse
                 /\ lastDraw.uTime = uTime

\* a tick whose interpolation moved this.mouse has drawn
DrewMovedMouse ==
    /\ last = "animate"
    /\ ticks >= 2
    /\ mouse # Center
    /\ mouse # targetMouse
    /\ lastDraw.uMouse = mouse

\* C4: the loop leaves Idle once and never stops: while Running one frame
\* request is pending between callbacks, every tick makes one draw, and
\* with refresh signals delivered fairly the ticks go on (up to the bound of
\* the model) whatever other events arrive.
FrameLoopRuns ==
    /\ [](loop = "Idle" => (ticks = 0 /\ pending = 0 /\ draws = 0))
    /\ [](loop = "Running" => (pending = 1 /\ ticks >= 1 /\ draws = ticks))
    /\ [](loop = "Running" /\ ticks < MaxTicks => ENABLED Tick)
    /\ [][loop' # loop => (loop = "Idle" /\ loop' = "Running")]_vars
    /\ [][(ticks' # ticks \/ draws' # draws)
             => (ticks' = ticks + 1 /\ draws' = draws + 1)]_vars
    /\ <>(ticks = MaxTicks)

\* the loop has run to the bound with the image request settled
LoopRanOn ==
    /\ loop = "Running"
    /\ ticks = MaxTicks
    /\ load # "pending"
    /\ targetMouse # Center

\* C5: onMouseMove changes this.targetMouse only; this.mouse and uTime change
\* only in a tick; width and height change only in onResize; onResize and the
\* two load callbacks leave this.mouse, this.targetMouse and uTime alone.
SingleWriter ==
    [][/\ last' = "onMouseMove"
            => UNCHANGED <<mouse, uMouse, uTime, width, height, innerWidth,
                           innerHeight, rendererSize, uResolution, uTexture>>
       /\ targetMouse' # targetMouse => last' = "onMouseMove"
       /\ (mouse' # mouse \/ uTime' # uTime) => last' = "animate"
       /\ (width' # width \/ height' # height) => last' = "onResize"
       /\ last' \in {"onResize", "onLoad", "onError"}
            => UNCHANGED <<mouse, targetMouse, uTime>>]_vars

\* a mousemove has just set a new target while this.mouse is elsewhere
MovedTargetOnly ==
    /\ last = "onMouseMove"
    /\ targetMouse # Center
    /\ mouse # targetMouse
    /\ ticks >= 1

\* C6: uTexture is null until the load callback runs, is the decoded image
\* from then on, and changes in no other step: only onLoad writes it, once.
TextureWrittenOnce ==
    /\ [](load # "loaded" => uTexture = NoTexture)
    /\ [](load = "loaded" => uTexture = Image)
    /\ [][uTexture' # uTexture
             => (uTexture = NoTexture /\ uTexture' = Image /\ last' = "onLoad")]_vars
    /\ [][uTexture = Image => uTexture' = Image]_vars

\* the image was installed and ticks, a resize and a mousemove followed
TextureKept ==
    /\ uTexture = Image
    /\ last = "onResize"
    /\ lastDraw.uTexture = Image
    /\ targetMouse # Center

\* C7: after a failed load the error was logged once, no second load was
\* issued, the texture is absent from then on, and the loop still has its
\* frame request pending and has drawn in every tick.
LoadFailureIsFinal ==
    /\ [](load = "failed" => /\ errors = 1
                             /\ loadCalls = 1
                             /\ uTexture = NoTexture
                             /\ pending = 1
                             /\ draws = ticks)
    /\ [](load # "failed" => errors = 0)
    /\ [](load = "failed" /\ ticks < MaxTicks => ENABLED Tick)
    /\ [][load = "failed" => load' = "failed"]_vars

\* ticks ran and drew after the load had failed
TickedAfterFailure ==
    /\ load = "failed"
    /\ last = "animate"
    /\ lastDraw.uTexture = NoTexture
    /\ lastDraw.tick = ticks
    /\ ticks = MaxTicks

\* C8: uTime is 0 at startup and 0.01 times the number of ticks run in every
\* state, whatever events were interleaved.
ClockCountsTicks ==
    /\ uTime = Dec(ticks, 100)
    /\ ticks = 0 => uTime = Zero

\* the clock after ticks interleaved with a load, a resize and a mousemove
ClockAfterEvents ==
    /\ ticks = MaxTicks
    /\ uTime = Dec(MaxTicks, 100)
    /\ load = "loaded"
    /\ targetMouse # Center
    /\ last = "onResize"

\* one component of a smoothing step: the new remainder is 0.9 of the old
\* one, so it keeps its sign and does not grow
Contracts(c, d, t) ==
    /\ d = Add(c, Mul(Sub(t, c), <<1, 10>>))
    /\ Sub(t, d) = Mul(Sub(t, c), <<9, 10>>)
    /\ Leq(Abs(Sub(t, d)), Abs(Sub(t, c)))
    /\ Less(c, t) => (Less(c, d) /\ Less(d, t))
    /\ Less(t, c) => (Less(d, c) /\ Less(t, d))
    /\ c = t => d = t

\* C9: with the target fixed a tick moves each component of this.mouse a tenth
\* of the way to the target, so what remains is exactly 0.9 of what remained,
\* never more and never past the target; from (0,0) toward (1,1) one tick
\* gives (0.1,0.1).
SmoothingContracts ==
    [][ticks' # ticks
          => /\ targetMouse' = targetMouse
             /\ Contracts(mouse.x, mouse'.x, targetMouse.x)
             /\ Contracts(mouse.y, mouse'.y, targetMouse.y)
             /\ (mouse = Origin /\ targetMouse = Corner)
                  => mouse' = Vec(Dec(1, 10), Dec(1, 10))]_vars

\* one tick from (0,0) toward (1,1)
OneStepFromOrigin ==
    /\ mouse0 = Origin
    /\ targetMouse = Corner
    /\ ticks = 1
    /\ mouse = Vec(Dec(1, 10), Dec(1, 10))

\* 0.9^10 = 0.3486784401
NineTenthsToTheTenth == <<3486784, 4010000>>

\* C10 as stated: from (0,0) toward (1,1), after 10 ticks this.mouse is
\* within 0.001 of the target.
TenTicksWithinThousandth ==
    (mouse0 = Origin /\ targetMouse = Corner /\ ticks = 10)
        => /\ Leq(Abs(Sub(targetMouse.x, mouse.x)), Dec(1, 1000))
           /\ Leq(Abs(Sub(targetMouse.y, mouse.y)), Dec(1, 1000))

\* C10 as the code has it: from (0,0) toward (1,1), after 10 ticks each
\* component of this.mouse is 0.9^10 = 0.3486784401 short of the target:
\* within 0.35 of it and not within 0.001.
TenTicksWithinThirtyFiveHundredths ==
    (mouse0 = Origin /\ targetMouse = Corner /\ ticks = 10)
        => /\ Sub(targetMouse.x, mouse.x) = NineTenthsToTheTenth
           /\ Sub(targetMouse.y, mouse.y) = NineTenthsToTheTenth
           /\ Leq(Abs(Sub(targetMouse.x, mouse.x)), Dec(35, 100))
           /\ ~Leq(Abs(Sub(targetMouse.x, mouse.x)), Dec(1, 1000))

\* ten ticks from (0,0) toward (1,1)
TenStepsFromOrigin ==
    /\ mouse0 = Origin
    /\ targetMouse = Corner
    /\ ticks = 10
    /\ Less(mouse.x, One)
    /\ Less(Dec(1, 2), mouse.x)

\* C11: a mousemove at (clientX, clientY) stores exactly clientX / width and
\* 1 - clientY / height, with the width and height the handler reads, unclamped
\* (x * width = clientX, y * height + clientY = height, whatever their range);
\* no other handler, a later resize included, changes the stored target.
TargetIsNormalisedPointer ==
    [][/\ last' = "onMouseMove"
            => /\ targetMouse' = Vec(Dec(pointer'[1], width),
                                     Sub(One, Dec(pointer'[2], height)))
               /\ Mul(targetMouse'.x, <<width, 1>>) = Dec(pointer'[1], 1)
               /\ Add(Mul(targetMouse'.y, <<height, 1>>), Dec(pointer'[2], 1))
                    = Dec(height, 1)
       /\ last' # "onMouseMove"
            => (targetMouse' = targetMouse /\ pointer' = pointer)]_vars

\* a pointer right of the viewport gave a target x of 2, kept by a later
\* resize that would have put the same pointer inside
TargetOutsideKept ==
    /\ last = "onResize"
    /\ pointer = <<4, 1>>
    /\ width = 4
    /\ targetMouse = Vec(Dec(2, 1), Dec(3, 4))
    /\ Less(One, targetMouse.x)

\* this.mouse as the targets read by the ticks so far determine it
RECURSIVE Replay(_, _)
Replay(c, h) == IF h = <<>> THEN c ELSE Replay(lerp(c, Head(h), Alpha), Tail(h))

\* C12: this.mouse is a function of where it started and of the sequence of
\* targets the ticks read, and of nothing else: in every state it is that
\* sequence replayed, whatever the load did and whatever the clock shows, so
\* two runs with the same ticks and targets agree on it after every tick.
MouseDependsOnTargetsOnly ==
    /\ Len(history) = ticks
    /\ mouse = Replay(mouse0, history)
    /\ uMouse = mouse

\* the same ticks and targets seen with the load failed
ReplayedWithFailedLoad ==
    /\ load = "failed"
    /\ ticks = MaxTicks
    /\ history[ticks] # Center
    /\ mouse # Center
    /\ last = "animate"

\* C13: hidePreloader is called by the onLoad callback only and at most once,
\* after the texture was installed: whenever it has been called, and whenever
\* the overlay is fading or hidden, uTexture is the image.
ReadyOnlyAfterTexture ==
    /\ [](hideCalls <= 1)
    /\ [](hideCalls = 1 => (uTexture = Image /\ load = "loaded"))
    /\ [](preloader \in {"fading", "hidden"} => (uTexture = Image /\ hideCalls = 1))
    /\ [][hideCalls' # hideCalls
             => (last' = "onLoad" /\ hideCalls' = 1 /\ uTexture' = Image)]_vars
    /\ [][(preloader = "visible" /\ preloader' # "visible") => last' = "onLoad"]_vars

\* the overlay was hidden after a successful load
PreloaderHidden ==
    /\ hideCalls = 1
    /\ preloader = "hidden"
    /\ uTexture = Image
    /\ ticks >= 2

\* C19: while the image has not loaded, and for ever once the load has failed,
\* hidePreloader has not been called and a #preloader element stays visible;
\* the counter's interval and the frame loop go on regardless.
FailedLoadKeepsPreloader ==
    /\ [](load # "loaded" => /\ hideCalls = 0
                             /\ preloader = IF dom.preloader THEN "visible" ELSE "absent")
    /\ [][load = "failed" => /\ load' = "failed"
                             /\ hideCalls' = 0
                             /\ preloader' = preloader]_vars
    /\ [](load = "failed" /\ interval => ENABLED IntervalFire)
    /\ [](load = "failed" /\ ticks < MaxTicks => ENABLED Tick)
    /\ [](load = "failed" => ~ ENABLED FadeEnd)

\* the load failed, the counter ran to [100], frames were drawn, and the
\* overlay is still there
FullCounterBehindFailedLoad ==
    /\ load = "failed"
    /\ dom = FullPage
    /\ preloader = "visible"
    /\ count = CountMax
    /\ ~ interval
    /\ counterText = counterLabel(CountMax)
    /\ ticks = MaxTicks
    /\ draws = ticks
    /\ last = "onInterval"

\* C20: the count stays in 0..CountMax and is changed by the interval callback
\* only, by a clamped increment in 0..RandomSpan-1; the interval is set exactly
\* while the count is below CountMax, so the count is final once it is there;
\* with non-zero increments occurring, the count reaches CountMax and the
\* interval is cleared, whatever the load does.
CounterRunsToHundred ==
    /\ [](count \in 0..CountMax)
    /\ []({randomInt(j) : j \in 0..(RandomSteps - 1)} = 0..(RandomSpan - 1))
    /\ [](loop = "Running" => (interval <=> count < CountMax))
    /\ [](loop = "Idle" => (count = 0 /\ ~ interval))
    /\ [][/\ count' >= count
          /\ count' # count => last' = "onInterval"
          /\ last' = "onInterval"
               => /\ interval
                  /\ \E inc \in 0..(RandomSpan - 1) :
                       count' = IF count + inc > CountMax THEN CountMax
                                ELSE count + inc]_vars
    /\ [][count = CountMax => (count' = CountMax /\ ~ interval')]_vars
    /\ <>[](count = CountMax /\ ~ interval)

\* the counter is full and its interval cleared while the load is still pending
CounterFullWhilePending ==
    /\ count = CountMax
    /\ ~ interval
    /\ load = "pending"
    /\ last = "onInterval"
    /\ counterText = counterLabel(CountMax)

\* C17: the ratio applied to the renderer is min(devicePixelRatio, 2) of the
\* display the page was constructed on; no handler changes it, so it is at
\* most 2 in every state, after any resizes and changes of display.
PixelRatioCapped ==
    /\ pixelRatio = min(devicePixelRatio, Dec(2, 1))
    /\ [](Leq(pixelRatio, Dec(2, 1)))
    /\ [](pixelRatio \in {min(r, Dec(2, 1)) : r \in Ratios})
    /\ [][pixelRatio' = pixelRatio]_vars

\* a resize ran on a display of ratio 3 with the applied ratio at 2
ResizedOnDenseDisplay ==
    /\ last = "onResize"
    /\ devicePixelRatio = Dec(3, 1)
    /\ pixelRatio = Dec(2, 1)
    /\ rendererSize = <<innerWidth, innerHeight>>
    /\ ticks = MaxTicks

\* C14: for a shaded fragment with dist >= lensSize, distortedUv is uv, lensMask
\* is 0 and aberration is 0, so r, g and b are all read at uv (and a is 1).
OutsideLensUntouched ==
    (last = "main" /\ ~ flt(dist(frag), lensSize))
        => /\ distortedUv(frag, dist(frag)) = frag.uv
           /\ lensMask(dist(frag)) = R0
           /\ aberration(lensMask(dist(frag)), dist(frag)) = R0
           /\ gl_FragColor = [r |-> frag.uv, g |-> frag.uv, b |-> frag.uv, a |-> R1]

\* a fragment exactly on the lens edge of a 2:1 frame was shaded
ShadedOnLensEdge ==
    /\ last = "main"
    /\ frag.uResolution = <<4, 2>>
    /\ frag.uMouse = Vec(Rat(1, 2), Rat(1, 2))
    /\ frag.uv = Vec(Rat(7, 10), Rat(1, 2))
    /\ dist(frag) = lensSize
    /\ gl_FragColor.g = frag.uv
    /\ gl_FragColor.r = gl_FragColor.b

\* C15: for the fragment at uv = uMouse = (0.5, 0.5), dist is 0, lensMask is 1,
\* aberration is 0 and r, g and b are all read at the coordinate (0.5, 0.5).
CentreReadsCentre ==
    (/\ last = "main"
     /\ frag.uMouse = Vec(Rat(1, 2), Rat(1, 2))
     /\ frag.uv = frag.uMouse)
        => /\ dist(frag) = R0
           /\ lensMask(dist(frag)) = R1
           /\ aberration(lensMask(dist(frag)), dist(frag)) = R0
           /\ gl_FragColor.r = Vec(Rat(1, 2), Rat(1, 2))
           /\ gl_FragColor.g = Vec(Rat(1, 2), Rat(1, 2))
           /\ gl_FragColor.b = Vec(Rat(1, 2), Rat(1, 2))

\* C16: lensMask is 1 for dist <= 0.32, 0 for dist >= 0.4 and strictly between
\* 0 and 1 inside the band (0.5 at 0.36); of two fragments of a frame with
\* distances in [0.32, 0.4], the farther one has the smaller lensMask.
LensMaskBand ==
    /\ [](last = "main"
            => LET d == dist(frag)
                   m == lensMask(d)
               IN  /\ ~ flt(Rat(8, 25), d) => m = R1
                   /\ ~ flt(d, Rat(2, 5)) => m = R0
                   /\ (flt(Rat(8, 25), d) /\ flt(d, Rat(2, 5)))
                        => (flt(R0, m) /\ flt(m, R1))
                   /\ d = Rat(9, 25) => m = Rat(1, 2))
    /\ [][(last = "main" /\ last' = "main")
              => LET d == dist(frag)
                     e == dist(frag')
                 IN  (/\ ~ flt(d, Rat(8, 25))
                      /\ flt(d, e)
                      /\ ~ flt(Rat(2, 5), e))
                         => flt(lensMask(e), lensMask(d))]_vars

\* the fragment at dist 0.36 of a 2:1 frame was shaded, lensMask 0.5
ShadedAcrossBand ==
    /\ last = "main"
    /\ dist(frag) = Rat(9, 25)
    /\ lensMask(dist(frag)) = Rat(1, 2)
    /\ frag.uMouse = Vec(Rat(3, 10), Rat(1, 2))
    /\ frag.uResolution = <<4, 2>>
    /\ frag.uv = Vec(Rat(12, 25), Rat(1, 2))
    /\ gl_FragColor.r # gl_FragColor.b

\* C18: with every mousemove inside the viewport, this.targetMouse and
\* this.mouse start at (0.5, 0.5) and keep both components in [0, 1]; this.mouse
\* changes in a tick only, by 0.1 of its distance to this.targetMouse.
PointerStaysNormalised ==
    /\ (mouse = Center /\ targetMouse = Center)
    /\ [](\A v \in {targetMouse.x, targetMouse.y, mouse.x, mouse.y} :
             Leq(Zero, v) /\ Leq(v, One))
    /\ [][mouse' # mouse
            => /\ last' = "animate"
               /\ ticks' = ticks + 1
               /\ mouse' = lerp(mouse, targetMouse, Alpha)
               /\ Abs(Sub(mouse'.x, mouse.x))
                    = Mul(Abs(Sub(targetMouse.x, mouse.x)), <<1, 10>>)
               /\ Abs(Sub(mouse'.y, mouse.y))
                    = Mul(Abs(Sub(targetMouse.y, mouse.y)), <<1, 10>>)]_vars

\* the divisions of InsideSpec are exact
InsideExact ==
    /\ Exact
    /\ \A p \in InsidePointers :
         (p[1] <= width /\ p[2] <= height)
            => (DecExact(p[1], width) /\ DecExact(p[2], height))

\* the pointer went to the bottom right corner and the mouse followed it
FollowedToCorner ==
    /\ pointer = <<width, height>>
    /\ targetMouse = Vec(One, Zero)
    /\ Less(Dec(1, 2), mouse.x)
    /\ Less(mouse.y, Dec(1, 2))
    /\ ticks = MaxTicks
    /\ last = "animate"
====
